---- MODULE Spec2Model ----
(***************************************************************************)
(* Model of src/components/FileUpload.tsx: the staging list of a React     *)
(* component (files, preview object URLs) and the createZip build          *)
(* (JSZip container, progress checkpoints, generateAsync suspension,       *)
(* saveAs download, toasts).                                               *)
(*                                                                         *)
(* Every handler is one action.  React flushes the state updates of a      *)
(* discrete event (click, change, drop) and re-renders before the next     *)
(* event is dispatched, so every handler action ends with Render, which    *)
(* refreshes the values the next handlers close over (rendered).           *)
(***************************************************************************)
EXTENDS Integers, Sequences, FiniteSets, TLC

\* ------------------------------------------------------------- bounds
MaxFiles == 2        \* longest staging list explored
MaxBatch == 2        \* longest newFiles array passed to addFiles
MaxHandles == 1      \* number of object URLs created in one session
MaxTicks == 1        \* clock advances explored, one second each

\* ------------------------------------------------------------- inputs
\* The File objects a user can pick: name, bytes (an abstract content
\* identity), size and MIME type.  Two of them share a name.
RawFiles ==
  { [name |-> "a.txt", bytes |-> 1, size |-> 12,   type |-> "text/plain"],
    [name |-> "b.png", bytes |-> 2, size |-> 2048, type |-> "image/png"],
    [name |-> "a.txt", bytes |-> 3, size |-> 100,  type |-> "image/png"] }

\* Strings that Math.random().toString(36).substring(7) may return.
Ids == {"k3x9qf", "0zt7mb"}
Handles == 1..MaxHandles
NoPreview == 0

\* sonner toasts: level and message (for addFiles the message template, the
\* count it interpolates is not kept).
Toast(level, text) == [level |-> level, text |-> text]
ToastAdded == Toast("success", "Added ${newFiles.length} file(s)")
ToastCleared == Toast("success", "All files cleared")
ToastNoFiles == Toast("error", "Please add some files first")
ToastSuccess == Toast("success", "ZIP file created and downloaded successfully!")
ToastFailed == Toast("error", "Failed to create ZIP file")

VARIABLES
  files,          \* useState<FileItem[]>: the staging list
  isCreatingZip,  \* useState(false): the Building flag
  zipProgress,    \* useState(0): last progress value set
  rendered,       \* what the handlers of the last render close over
  mounted,        \* the component is mounted
  nextHandle,     \* next object URL that URL.createObjectURL returns
  revoked,        \* object URL -> number of URL.revokeObjectURL calls on it
  pending,        \* builds suspended at await zip.generateAsync, each with
                  \* its container, its files and the progress values it has set
  progressLog,    \* all progress values set by the build that the last handler
                  \* finished (empty if it finished none)
  emitted,        \* toasts emitted by the last handler that ran
  saved,          \* saveAs calls of the last handler that ran: blob, filename
  downloads,      \* the saveAs calls so far: the set of (filename, clock value)
  uncaught,       \* an exception left createZip
  now             \* Date clock, milliseconds

vars == <<files, isCreatingZip, zipProgress, rendered, mounted, nextHandle,
          revoked, pending, progressLog, emitted, saved, downloads,
          uncaught, now>>

\* ------------------------------------------------------------- helpers
\* A progress value: a rational, kept as numerator and denominator.
Frac(n, d) == [num |-> n, den |-> d]
FracEq(p, q) == p.num * q.den = q.num * p.den
FracLt(p, q) == p.num * q.den < q.num * p.den

IsImage(file) == file.type \in {"image/png"}

RECURSIVE SumImages(_)
SumImages(fs) ==
  IF fs = <<>> THEN 0
  ELSE (IF IsImage(Head(fs)) THEN 1 ELSE 0) + SumImages(Tail(fs))

\* Sequences over S of length lo..hi.
SeqsOf(S, lo, hi) == UNION { [1..n -> S] : n \in lo..hi }

\* End of a handler: React re-renders, the new closures see the new state.
Render ==
  rendered' = [files |-> files', isCreatingZip |-> isCreatingZip']

Init ==
  /\ files = <<>>
  /\ isCreatingZip = FALSE
  /\ zipProgress = Frac(0, 1)
  /\ rendered = [files |-> <<>>, isCreatingZip |-> FALSE]
  /\ mounted = TRUE
  /\ nextHandle = 1
  /\ revoked = [h \in Handles |-> 0]
  /\ pending = <<>>
  /\ progressLog = <<>>
  /\ emitted = <<>>
  /\ saved = <<>>
  /\ downloads = {}
  /\ uncaught = FALSE
  /\ now = 0

\* ------------------------------------------------------- staging list
\* Math.random().toString(36).substring(7): some string, nothing makes it
\* differ from the ids already in the list.  ids[k] is the draw for newFiles[k].
RandomIds(n) == [1..n -> Ids]

\* newFiles.map(...): one FileItem per file, an object URL for images only.
\* URL.createObjectURL returns a new URL on every call.
FileItems(newFiles, ids) ==
  [k \in 1..Len(newFiles) |->
     [id |-> ids[k],
      file |-> newFiles[k],
      preview |-> IF IsImage(newFiles[k])
                  THEN nextHandle + SumImages(SubSeq(newFiles, 1, k - 1))
                  ELSE NoPreview]]

addFiles(newFiles, ids) ==
  /\ files' = files \o FileItems(newFiles, ids)
  /\ nextHandle' = nextHandle + SumImages(newFiles)
  /\ emitted' = <<ToastAdded>>
  /\ saved' = <<>>
  /\ progressLog' = <<>>
  /\ UNCHANGED <<isCreatingZip, zipProgress, mounted, revoked, pending,
                 downloads, uncaught, now>>

\* Inputs kept within the bounds of the model.
FitsBounds(newFiles) ==
  /\ Len(files) + Len(newFiles) <= MaxFiles
  /\ nextHandle - 1 + SumImages(newFiles) <= MaxHandles

\* onDrop: e.dataTransfer.files may be empty.
handleDrop ==
  /\ mounted
  /\ \E newFiles \in SeqsOf(RawFiles, 0, MaxBatch) :
       /\ FitsBounds(newFiles)
       /\ \E ids \in RandomIds(Len(newFiles)) : addFiles(newFiles, ids)
  /\ Render

\* onChange of the file input: a null e.target.files does nothing.
handleFileInput ==
  /\ mounted
  /\ \E newFiles \in SeqsOf(RawFiles, 1, MaxBatch) :
       /\ FitsBounds(newFiles)
       /\ \E ids \in RandomIds(Len(newFiles)) : addFiles(newFiles, ids)
  /\ Render

\* prev.find(f => f.id === id): the first entry with that id, if any.
FindIndex(prev, id) ==
  IF \E k \in 1..Len(prev) : prev[k].id = id
  THEN CHOOSE k \in 1..Len(prev) :
         /\ prev[k].id = id
         /\ \A j \in 1..(k - 1) : prev[j].id # id
  ELSE 0

\* prev.filter(f => f.id !== id)
FilterOut(prev, id) == SelectSeq(prev, LAMBDA f : f.id # id)

\* URL.revokeObjectURL on every handle of hs (a sequence of handles).
RECURSIVE Revoke(_, _)
Revoke(rv, hs) ==
  IF hs = <<>> THEN rv
  ELSE Revoke([rv EXCEPT ![Head(hs)] = @ + 1], Tail(hs))

removeFile(id) ==
  LET k == FindIndex(files, id)
      hs == IF k # 0 /\ files[k].preview # NoPreview
            THEN <<files[k].preview>> ELSE <<>>
  IN /\ revoked' = Revoke(revoked, hs)
     /\ files' = FilterOut(files, id)
     /\ emitted' = <<>>
     /\ saved' = <<>>
     /\ progressLog' = <<>>
     /\ UNCHANGED <<isCreatingZip, zipProgress, mounted, nextHandle, pending,
                    downloads, uncaught, now>>

\* The X button of a rendered row.
ClickRemove ==
  /\ mounted
  /\ \E k \in 1..Len(rendered.files) : removeFile(rendered.files[k].id)
  /\ Render

\* The handles of the entries that have one, in list order.
Previews(fs) ==
  LET withPreview == SelectSeq(fs, LAMBDA f : f.preview # NoPreview)
  IN [k \in 1..Len(withPreview) |-> withPreview[k].preview]

\* files is the list of the render the handler closes over.
clearAllFiles ==
  /\ revoked' = Revoke(revoked, Previews(rendered.files))
  /\ files' = <<>>
  /\ emitted' = <<ToastCleared>>
  /\ saved' = <<>>
  /\ progressLog' = <<>>
  /\ UNCHANGED <<isCreatingZip, zipProgress, mounted, nextHandle, pending,
                 downloads, uncaught, now>>

\* The Clear All button, rendered when the list is not empty.
ClickClearAll ==
  /\ mounted
  /\ Len(rendered.files) > 0
  /\ clearAllFiles
  /\ Render

\* ----------------------------------------------------- archive builder
\* JSZip file(name, data): the container is keyed by name, a second file of
\* the same name replaces the first entry's data in place.
ZipFile(zip, name, file) ==
  IF \E k \in 1..Len(zip) : zip[k].name = name
  THEN [k \in 1..Len(zip) |->
          IF zip[k].name = name THEN [name |-> name, bytes |-> file.bytes]
          ELSE zip[k]]
  ELSE Append(zip, [name |-> name, bytes |-> file.bytes])

\* Mutant of Checkpoint: i / files.length in place of (i + 1) / files.length.
CheckpointFromZero(k, n) == Frac((k - 1) * 50, n)

\* setZipProgress(((i + 1) / files.length) * 50), i counted from 0; k = i + 1.
\* The value is kept as an exact fraction (JS rounds it to a double, which
\* keeps the order of the checkpoints).
Checkpoint(k, n) == Frac(k * 50, n)

\* for (let i = 0; i < files.length; i++): acc is the container and the
\* progress values set so far.
RECURSIVE ZipLoop(_, _, _)
ZipLoop(fs, k, acc) ==
  IF k > Len(fs) THEN acc
  ELSE ZipLoop(fs, k + 1,
               [zip |-> ZipFile(acc.zip, fs[k].file.name, fs[k].file),
                log |-> Append(acc.log, Checkpoint(k, Len(fs)))])

\* The File objects of a list, in order.
FilesOf(fs) == [k \in 1..Len(fs) |-> fs[k].file]

\* Mutant of createZip: the files.length === 0 return is missing.
createZipNoEmptyCheck ==
  LET fs == rendered.files
      built == ZipLoop(fs, 1, [zip |-> <<>>, log |-> <<Frac(0, 1)>>])
  IN /\ isCreatingZip' = TRUE
     /\ zipProgress' = Frac(75, 1)
     /\ progressLog' = <<>>
     /\ pending' = Append(pending, [zip |-> built.zip, from |-> FilesOf(fs),
                                    log |-> Append(built.log, Frac(75, 1))])
     /\ emitted' = <<>>
     /\ saved' = <<>>
     /\ UNCHANGED <<files, mounted, nextHandle, revoked, downloads,
                    uncaught, now>>

\* createZip up to its await: the empty-list return, or the flag, the loop,
\* the checkpoint 75 and the suspension at zip.generateAsync.
createZip ==
  LET fs == rendered.files
      built == ZipLoop(fs, 1, [zip |-> <<>>, log |-> <<Frac(0, 1)>>])
  IN IF Len(fs) = 0
     THEN /\ emitted' = <<ToastNoFiles>>
          /\ saved' = <<>>
          /\ progressLog' = <<>>
          /\ UNCHANGED <<files, isCreatingZip, zipProgress, mounted, nextHandle,
                         revoked, pending, downloads, uncaught, now>>
     ELSE /\ isCreatingZip' = TRUE
          /\ zipProgress' = Frac(75, 1)
          /\ progressLog' = <<>>
          /\ pending' = Append(pending, [zip |-> built.zip, from |-> FilesOf(fs),
                                         log |-> Append(built.log, Frac(75, 1))])
          /\ emitted' = <<>>
          /\ saved' = <<>>
          /\ UNCHANGED <<files, mounted, nextHandle, revoked, downloads,
                         uncaught, now>>

\* Mutant of CreateZipButtonEnabled: the button has no disabled attribute.
CreateZipButtonNeverDisabled == Len(rendered.files) > 0

\* <Button onClick={createZip} disabled={isCreatingZip}>, inside the card
\* rendered when files.length > 0.
CreateZipButtonEnabled ==
  /\ Len(rendered.files) > 0
  /\ ~rendered.isCreatingZip

ClickCreateZip ==
  /\ mounted
  /\ CreateZipButtonEnabled
  /\ createZip
  /\ Render

\* Mutant of Timestamp: slice(0, 16), which cuts the seconds off.
TimestampToMinutes(t) ==
  [date |-> t \div 86400000,
   hour |-> (t \div 3600000) % 24,
   minute |-> (t \div 60000) % 60,
   second |-> 0]

\* new Date().toISOString().slice(0, 19).replace(/:/g, '-'): the date and
\* the hour, minute and second of the clock; the milliseconds are cut off.
Timestamp(t) ==
  [date |-> t \div 86400000,
   hour |-> (t \div 3600000) % 24,
   minute |-> (t \div 60000) % 60,
   second |-> (t \div 1000) % 60]

FileName(t) == [prefix |-> "file-fling-", stamp |-> Timestamp(t), ext |-> ".zip"]

\* The blob of generateAsync({type: "blob", compression: "DEFLATE", level: 6}).
Blob(zip) == [compression |-> "DEFLATE", level |-> 6, entries |-> zip]

RemoveAt(s, i) == SubSeq(s, 1, i - 1) \o SubSeq(s, i + 1, Len(s))

\* Mutant of Finally: setIsCreatingZip(false) is missing.
FinallyKeepsFlag(loggedBefore) ==
  /\ isCreatingZip' = isCreatingZip
  /\ zipProgress' = IF mounted THEN Frac(0, 1) ELSE zipProgress
  /\ progressLog' = Append(loggedBefore, Frac(0, 1))

\* finally: setIsCreatingZip(false); setZipProgress(0).  A state setter of an
\* unmounted component does nothing.  loggedBefore: the progress values the
\* build has set before its finally block.
Finally(loggedBefore) ==
  /\ isCreatingZip' = IF mounted THEN FALSE ELSE isCreatingZip
  /\ zipProgress' = IF mounted THEN Frac(0, 1) ELSE zipProgress
  /\ progressLog' = Append(loggedBefore, Frac(0, 1))

\* generateAsync resolved: progress 100, saveAs, success toast, finally.
GenerateResolved(i) ==
  /\ saved' = <<[blob |-> Blob(pending[i].zip), name |-> FileName(now),
                 from |-> pending[i].from]>>
  /\ downloads' = downloads \cup {[name |-> FileName(now), at |-> now]}
  /\ emitted' = <<ToastSuccess>>
  /\ Finally(Append(pending[i].log, Frac(100, 1)))
  /\ pending' = RemoveAt(pending, i)
  /\ UNCHANGED <<files, mounted, nextHandle, revoked, uncaught, now>>

\* Mutant of GenerateRejected: try/finally without the catch block.
GenerateRejectedNoCatch(i) ==
  /\ emitted' = <<>>
  /\ saved' = <<>>
  /\ Finally(pending[i].log)
  /\ pending' = RemoveAt(pending, i)
  /\ uncaught' = TRUE
  /\ UNCHANGED <<files, mounted, nextHandle, revoked, downloads, now>>

\* generateAsync rejected (a staged file cannot be read): catch, finally.
GenerateRejected(i) ==
  /\ emitted' = <<ToastFailed>>
  /\ saved' = <<>>
  /\ Finally(pending[i].log)
  /\ pending' = RemoveAt(pending, i)
  /\ UNCHANGED <<files, mounted, nextHandle, revoked, downloads, uncaught, now>>

Resolve == \E i \in 1..Len(pending) : GenerateResolved(i) /\ Render

Reject == \E i \in 1..Len(pending) : GenerateRejected(i) /\ Render

\* The clock advances.
Tick ==
  /\ now < MaxTicks * 1000
  /\ now' = now + 1000
  /\ UNCHANGED <<files, isCreatingZip, zipProgress, rendered, mounted,
                 nextHandle, revoked, pending, progressLog, emitted, saved,
                 downloads, uncaught>>

\* The component has no effect cleanup: unmounting runs no code of it.
Unmount ==
  /\ mounted
  /\ mounted' = FALSE
  /\ UNCHANGED <<files, isCreatingZip, zipProgress, rendered, nextHandle,
                 revoked, pending, progressLog, emitted, saved, downloads,
                 uncaught, now>>

\* createZip and removeFile called by a caller other than the rendered
\* buttons: createZip by one that awaits each call, removeFile with any id.
CallCreateZip ==
  /\ mounted
  /\ pending = <<>>
  /\ createZip
  /\ Render

CallRemoveFile ==
  /\ mounted
  /\ \E id \in Ids : removeFile(id)
  /\ Render

\* ------------------------------------------------------ specifications
Settle == Resolve \/ Reject

Next ==
  \/ handleDrop
  \/ handleFileInput
  \/ ClickRemove
  \/ ClickClearAll
  \/ ClickCreateZip
  \/ Resolve
  \/ Reject
  \/ Tick

\* A session of the mounted component driven through its rendered controls.
Spec == Init /\ [][Next]_vars

\* The same, where a suspended generateAsync eventually resolves or rejects.
FairSpec == Spec /\ WF_vars(Settle)

NextCall == Next \/ CallCreateZip \/ CallRemoveFile

\* The handlers also called directly.
SpecCall == Init /\ [][NextCall]_vars

NextTeardown == Next \/ Unmount

\* A session that may end with the component being unmounted.
SpecTeardown == Init /\ [][NextTeardown]_vars

\* ------------------------------------------------------------- claims
AllocatedHandles == 1..(nextHandle - 1)
IsStaged(h) == \E k \in 1..Len(files) : files[k].preview = h
SecondOf(t) == t \div 1000

\* C1: at most one build is in flight at any time, and the Building flag is
\* set for as long as a build is suspended, whatever the user clicks meanwhile.
C1_OneBuildInFlight ==
  /\ Len(pending) <= 1
  /\ (pending # <<>>) => (isCreatingZip /\ rendered.isCreatingZip)

\* A build is suspended, the user has added files meanwhile and the card
\* with the Create ZIP button is on screen.
C1_Witness ==
  /\ Len(pending) = 1
  /\ Len(rendered.files) > 0
  /\ emitted = <<ToastAdded>>

\* C2: every allocated preview handle has been released exactly once if its
\* entry is no longer staged and never if its entry is still staged.
C2_HandlesReleasedExactlyOnce ==
  \A h \in AllocatedHandles : revoked[h] = IF IsStaged(h) THEN 0 ELSE 1

\* C3: the archive handed to saveAs holds one entry per file staged when the
\* build started, each with that file's name and bytes, in order.
C3_ArchiveHoldsEveryStagedFile ==
  \A d \in 1..Len(saved) :
    LET entries == saved[d].blob.entries
        from == saved[d].from
    IN /\ Len(entries) = Len(from)
       /\ \A k \in 1..Len(from) :
            /\ entries[k].name = from[k].name
            /\ entries[k].bytes = from[k].bytes

\* C4: removeFile(id) with id in the list removes exactly that one entry and
\* keeps the others in order; with id not in the list it changes nothing.
C4_RemoveExactlyOne ==
  [][\A id \in Ids :
       removeFile(id) =>
         IF \E k \in 1..Len(files) : files[k].id = id
         THEN /\ Len(files') = Len(files) - 1
              /\ files' = RemoveAt(files, FindIndex(files, id))
         ELSE files' = files]_vars

\* C5: a successful build of n files has set progress to 0, then the n
\* checkpoints k*50/n (strictly increasing, the last one 50), then 75, then
\* 100, then 0; the values strictly increase from the first 0 up to 100.
C5_ProgressSequence ==
  (emitted = <<ToastSuccess>> /\ saved # <<>>) =>
    LET n == Len(saved[1].from)
        L == progressLog
    IN /\ n >= 1
       /\ Len(L) = n + 4
       /\ L[1] = Frac(0, 1)
       /\ \A k \in 1..n : FracEq(L[k + 1], Frac(k * 50, n))
       /\ FracEq(L[n + 1], Frac(50, 1))
       /\ L[n + 2] = Frac(75, 1)
       /\ L[n + 3] = Frac(100, 1)
       /\ L[n + 4] = Frac(0, 1)
       /\ \A k \in 1..(n + 2) : FracLt(L[k], L[k + 1])

\* A build of two files has just succeeded.
C5_Witness ==
  /\ emitted = <<ToastSuccess>>
  /\ saved # <<>>
  /\ Len(saved[1].from) >= 2
  /\ Len(progressLog) >= 6

\* C6: every build that sets the Building flag is followed by a state with the
\* flag cleared, progress 0 and no build suspended, whether it succeeds or fails.
C6_BuildReturnsToIdle ==
  isCreatingZip ~> (~isCreatingZip /\ zipProgress = Frac(0, 1) /\ pending = <<>>)

\* A build has failed and the component is idle again.
C6_Witness ==
  /\ emitted = <<ToastFailed>>
  /\ ~isCreatingZip
  /\ ~rendered.isCreatingZip
  /\ zipProgress = Frac(0, 1)
  /\ pending = <<>>

\* C7: createZip on an empty list emits the no-files error and nothing else:
\* the flag and the progress keep their values, no build is started, nothing
\* is saved and no exception leaves the call.
C7_EmptyBuildAborts ==
  [][(createZip /\ rendered.files = <<>>) =>
       /\ emitted' = <<ToastNoFiles>>
       /\ isCreatingZip' = isCreatingZip
       /\ zipProgress' = zipProgress
       /\ progressLog' = <<>>
       /\ pending' = pending
       /\ saved' = <<>>
       /\ downloads' = downloads
       /\ ~uncaught']_vars

\* createZip has been called on an empty list while idle.
C7_Witness ==
  /\ emitted = <<ToastNoFiles>>
  /\ files = <<>>
  /\ ~isCreatingZip

\* C8: a build whose serialization fails emits the generic failure toast and
\* no other, saves nothing, lets no exception out, leaves the staging list and
\* its preview handles as they were and clears the Building flag.
C8_FailureCaught ==
  [][\A i \in 1..Len(pending) :
       GenerateRejected(i) =>
         /\ emitted' = <<ToastFailed>>
         /\ saved' = <<>>
         /\ downloads' = downloads
         /\ ~uncaught'
         /\ files' = files
         /\ revoked' = revoked
         /\ nextHandle' = nextHandle
         /\ ~isCreatingZip']_vars

\* A build has failed with files still staged, one of them with a preview.
C8_Witness ==
  /\ emitted = <<ToastFailed>>
  /\ files # <<>>
  /\ \E k \in 1..Len(files) : files[k].preview # NoPreview

\* C9 as stated: the filename of a download differs from the filename of
\* every earlier download of the session.
C9_FilenamesNeverCollide ==
  [][\A i \in 1..Len(pending) :
       GenerateResolved(i) =>
         \A d \in 1..Len(saved') :
           saved'[d].name \notin {e.name : e \in downloads}]_vars

\* C9 as amended: two downloads triggered at clock values of different whole
\* seconds have different filenames.
C9_FilenamesDifferAcrossSeconds ==
  \A d, e \in downloads :
    SecondOf(d.at) # SecondOf(e.at) => d.name # e.name

\* Two downloads were triggered in different seconds.
C9_Witness ==
  \E d, e \in downloads : SecondOf(d.at) # SecondOf(e.at)

\* C10: once the component is unmounted, every allocated preview handle has
\* been released.
C10_TeardownReleasesHandles ==
  ~mounted => \A h \in AllocatedHandles : revoked[h] >= 1

====
